---- MODULE Spec2Model ----
(***************************************************************************)
(* The authoritative Texas Hold'em table engine of the poker server: one   *)
(* room, its players, the betting round, the street changes, the timers    *)
(* that carry a hand from reveal to showdown to the next hand, and the     *)
(* socket handlers that drive it.  Every JavaScript function is an         *)
(* operator from a room value to a room value; every socket handler and    *)
(* every timer callback is one action.                                     *)
(***************************************************************************)
EXTENDS Integers, Sequences, FiniteSets, TLC

\* ---- Config ----
MAX_PLAYERS == 8
STARTING_STACK == 2000
NumRanks == 13
NumSuits == 4
DeckSize == NumRanks * NumSuits
InitSmallBlind == 10
InitBigBlind == 20
REVEAL_DELAY == 3000
NEXT_HAND_DELAY == 3500
BOT_DELAY_MIN == 800
BOT_DELAY_SPREAD == 600

\* JavaScript null, for a seat
null == 0 - 1

\* ---- Bounds and input domains ----
\* number of hands a behaviour may begin
MaxHands == 2
\* human sockets and the one bot identity
Sockets == {"h", "p"}
BotIds == {"bot"}
Ids == Sockets \cup BotIds
\* rotations of the sorted deck that shuffleInPlace may produce
Shuffles == {17}
\* amounts a client may send with bet/raise: nothing, less than a minimum
\* raise, more than any stack
Amounts == {0, 15, 5000}
\* the same with a legal raise over the opening blinds, for the one-hand runs
HandAmounts == Amounts \cup {60}
\* action strings a client may send
Kinds == {"fold", "check", "call", "all-in", "bet", "raise", "FOLD", "dance"}
\* The numbers a client sends with setBlinds, after Number(): a finite number
\* is written as its count of halves (10 is 5, 1 is 0.5, -4 is -2), Infinity
\* as the value below, and 0 stands for every falsy result (0, NaN of a
\* missing or non-numeric field).
Infinity == 2147483647

\* blind pairs a host may send with setBlinds: 5 and nothing
BlindInputs == {<<10, 0>>}

\* any numbers: 0.5, 1.5, 5, -2, 30, 100, Infinity, or nothing
BlindValues == {0, 1, 3, 10, -4, 60, 200, Infinity}

Min(a, b) == IF a < b THEN a ELSE b
Max(a, b) == IF a > b THEN a ELSE b

RECURSIVE SumSeq(_)
SumSeq(s) == IF Len(s) = 0 THEN 0 ELSE Head(s) + SumSeq(Tail(s))

SetMin(S) == CHOOSE x \in S : \A y \in S : x <= y

\* ---- Helpers ----
FindSeat(ps, seat) ==
  IF \E i \in 1..Len(ps) : ps[i].seat = seat
  THEN CHOOSE i \in 1..Len(ps) : ps[i].seat = seat
  ELSE 0

FindId(ps, id) ==
  IF \E i \in 1..Len(ps) : ps[i].id = id
  THEN SetMin({i \in 1..Len(ps) : ps[i].id = id})
  ELSE 0

freshDeck(off) == [i \in 1..DeckSize |-> ((i - 1 + off) % DeckSize) + 1]

RECURSIVE scanSeat(_, _, _, _, _, _)
scanSeat(ps, seat, i, includeFolded, includeAllIn, requireStack) ==
  IF i >= MAX_PLAYERS THEN null
  ELSE LET s == (seat + 1) % MAX_PLAYERS
           k == FindSeat(ps, s)
       IN IF k = 0
          THEN scanSeat(ps, s, i + 1, includeFolded, includeAllIn, requireStack)
          ELSE IF ~includeFolded /\ ps[k].folded
          THEN scanSeat(ps, s, i + 1, includeFolded, includeAllIn, requireStack)
          ELSE IF ~includeAllIn /\ ps[k].allIn
          THEN scanSeat(ps, s, i + 1, includeFolded, includeAllIn, requireStack)
          ELSE IF requireStack /\ ps[k].stack <= 0
          THEN scanSeat(ps, s, i + 1, includeFolded, includeAllIn, requireStack)
          ELSE s

nextActiveSeatMut(ps, fromSeat, includeFolded, includeAllIn, requireStack) ==
  IF Len(ps) = 0 THEN null
  ELSE scanSeat(ps, IF fromSeat = null THEN 0 ELSE fromSeat, 1,
                includeFolded, includeAllIn, requireStack)

nextActiveSeat(ps, fromSeat, includeFolded, includeAllIn, requireStack) ==
  IF Len(ps) = 0 THEN null
  ELSE scanSeat(ps, IF fromSeat = null THEN 0 ELSE fromSeat, 0,
                includeFolded, includeAllIn, requireStack)

activeSeats(ps) == {ps[i].seat : i \in {j \in 1..Len(ps) : ps[j].stack > 0}}

assignSeat(ps) ==
  LET free == {s \in 0..(MAX_PLAYERS - 1) : FindSeat(ps, s) = 0}
  IN IF free = {} THEN null ELSE SetMin(free)

newPlayer(id, seat, isBot) ==
  [id |-> id, seat |-> seat, stack |-> STARTING_STACK, connected |-> TRUE,
   folded |-> FALSE, allIn |-> FALSE, betThisRound |-> 0, committed |-> 0,
   hole |-> <<>>, hasActed |-> FALSE, bot |-> isBot]

commitPay(player, wanted) == Max(0, Min(wanted, player.stack))

commitPlayerMut(player, wanted) ==
  LET pay == commitPay(player, wanted)
  IN [player EXCEPT !.stack = @ - pay,
                    !.betThisRound = @ + pay,
                    !.committed = @ + pay]

commitPlayer(player, wanted) ==
  LET pay == commitPay(player, wanted)
  IN [player EXCEPT !.stack = @ - pay,
                    !.betThisRound = @ + pay,
                    !.committed = @ + pay,
                    !.allIn = IF player.stack - pay = 0 THEN TRUE ELSE @]

commitChipsMut(w, i, wanted) ==
  [w EXCEPT !.players[i] = commitPlayer(w.players[i], wanted)]

\* commitChips(room, player, wanted), player given by its index in room.players
commitChips(w, i, wanted) ==
  [w EXCEPT !.players[i] = commitPlayer(w.players[i], wanted),
            !.pot = @ + commitPay(w.players[i], wanted)]

SumStacks(ps) == SumSeq([i \in 1..Len(ps) |-> ps[i].stack])
SumCommitted(ps) == SumSeq([i \in 1..Len(ps) |-> ps[i].committed])
NoRanking == [id \in Ids |-> 0]
NoAward == [to |-> "", pot |-> 0, before |-> <<>>]

resetForNewHand(w, off) ==
  [w EXCEPT !.state = "hand",
            !.stage = "preflop",
            !.community = <<>>,
            !.deck = freshDeck(off),
            !.pot = 0,
            !.currentBet = 0,
            !.minRaise = w.bigBlind,
            !.currentSeat = null,
            !.solved = NoRanking,
            !.players = [i \in 1..Len(w.players) |->
               [w.players[i] EXCEPT !.folded = (w.players[i].stack <= 0),
                                    !.allIn = FALSE,
                                    !.betThisRound = 0,
                                    !.committed = 0,
                                    !.hole = <<>>,
                                    !.hasActed = FALSE]]]

startBettingRoundMut(w) ==
  [w EXCEPT !.currentBet = 0,
            !.minRaise = w.bigBlind,
            !.currentSeat = nextActiveSeat(w.players, w.dealerSeat, FALSE, FALSE, FALSE)]

startBettingRound(w) ==
  LET ps == [i \in 1..Len(w.players) |->
               IF ~w.players[i].folded /\ ~w.players[i].allIn
               THEN [w.players[i] EXCEPT !.betThisRound = 0, !.hasActed = FALSE]
               ELSE w.players[i]]
  IN [w EXCEPT !.currentBet = 0,
               !.minRaise = w.bigBlind,
               !.players = ps,
               !.currentSeat = nextActiveSeat(ps, w.dealerSeat, FALSE, FALSE, FALSE)]

shouldEndBettingRoundMut(w) ==
  LET ps == SelectSeq(w.players, LAMBDA p : ~p.folded /\ ~p.allIn)
  IN IF Len(ps) = 0 THEN TRUE
     ELSE \A i \in 1..Len(ps) : ps[i].betThisRound = w.currentBet

shouldEndBettingRound(w) ==
  LET ps == SelectSeq(w.players, LAMBDA p : ~p.folded /\ ~p.allIn)
  IN IF Len(ps) = 0 THEN TRUE
     ELSE LET allMatched == \A i \in 1..Len(ps) : ps[i].betThisRound = w.currentBet
              allActed == \A i \in 1..Len(ps) : ps[i].hasActed
          IN allMatched /\ allActed

\* index of the lone non-folded player, 0 when there is not exactly one
loneSurvivor(w) ==
  LET live == {i \in 1..Len(w.players) : ~w.players[i].folded}
  IN IF Cardinality(live) = 1 THEN CHOOSE i \in live : TRUE ELSE 0

\* deck.pop(): the last card of the deck
Top(deck) == deck[Len(deck)]
Pop(deck) == SubSeq(deck, 1, Len(deck) - 1)

\* one iteration of the inner loop of dealHoleCards; st = [w, seat]
dealOne(st) ==
  LET w == st.w
      k == FindSeat(w.players, st.seat)
      w2 == IF k # 0 /\ w.players[k].stack >= 0
            THEN [w EXCEPT !.players[k].hole = Append(@, Top(w.deck)),
                           !.deck = Pop(w.deck)]
            ELSE w
  IN [w |-> w2,
      seat |-> nextActiveSeat(w2.players, st.seat, TRUE, TRUE, TRUE)]

RECURSIVE dealLoop(_, _)
dealLoop(st, n) == IF n = 0 THEN st ELSE dealLoop(dealOne(st), n - 1)

dealHoleCards(w) ==
  LET seats == activeSeats(w.players)
  IN IF Cardinality(seats) < 2 THEN w
     ELSE dealLoop([w |-> w,
                    seat |-> nextActiveSeat(w.players, w.dealerSeat, TRUE, TRUE, TRUE)],
                   2 * Cardinality(seats)).w

sbSeatOfMut(w) == nextActiveSeat(w.players, w.dealerSeat, TRUE, TRUE, TRUE)

sbSeatOf(w) ==
  IF Cardinality(activeSeats(w.players)) = 2 THEN w.dealerSeat
  ELSE nextActiveSeat(w.players, w.dealerSeat, TRUE, TRUE, TRUE)

bbSeatOf(w) == nextActiveSeat(w.players, sbSeatOf(w), TRUE, TRUE, TRUE)

postBlinds(w) ==
  LET sb == FindSeat(w.players, sbSeatOf(w))
      bb == FindSeat(w.players, bbSeatOf(w))
      w1 == commitChips(w, sb, w.smallBlind)
      w2 == commitChips(w1, bb, w.bigBlind)
  IN [w2 EXCEPT !.currentBet = Max(w2.players[sb].betThisRound, w2.players[bb].betThisRound),
                !.minRaise = w.bigBlind,
                !.players = [i \in 1..Len(w2.players) |->
                   IF ~w2.players[i].folded /\ ~w2.players[i].allIn
                   THEN [w2.players[i] EXCEPT !.hasActed = FALSE]
                   ELSE w2.players[i]]]

firstToActPreflop(w, bbSeat) ==
  IF Cardinality(activeSeats(w.players)) = 2 THEN w.dealerSeat
  ELSE nextActiveSeat(w.players, bbSeat, FALSE, FALSE, TRUE)

beginHand(w, off) ==
  LET seats == activeSeats(w.players)
  IN IF Cardinality(seats) < 2 THEN [w EXCEPT !.state = "lobby"]
     ELSE LET w0 == [w EXCEPT !.dealerSeat =
                       IF w.dealerSeat \notin seats THEN SetMin(seats)
                       ELSE nextActiveSeat(w.players, w.dealerSeat, TRUE, TRUE, TRUE),
                     !.handNo = @ + 1,
                     !.handStart = SumStacks(w.players),
                     !.paid = 0,
                     !.award = NoAward,
                     !.potLog = <<>>]
              w1 == resetForNewHand(w0, off)
              bbSeat == bbSeatOf(w1)
              w2 == postBlinds(w1)
              w3 == dealHoleCards(w2)
          IN [w3 EXCEPT !.currentSeat = firstToActPreflop(w3, bbSeat)]

\* ---- Side pots and showdown ----
RECURSIVE sortAsc(_)
sortAsc(S) == IF S = {} THEN <<>> ELSE <<SetMin(S)>> \o sortAsc(S \ {SetMin(S)})

RECURSIVE potsLoopMut(_, _, _)
potsLoopMut(contrib, levels, prev) ==
  IF Len(levels) = 0 THEN <<>>
  ELSE LET level == Head(levels)
           inThis == SelectSeq(contrib, LAMBDA p : p.committed >= level)
           amount == level * Len(inThis)
           live == SelectSeq(inThis, LAMBDA p : ~p.folded)
           eligible == [i \in 1..Len(live) |-> live[i].id]
       IN <<[amount |-> amount, eligible |-> eligible]>>
          \o potsLoopMut(contrib, Tail(levels), level)

RECURSIVE potsLoop(_, _, _)
potsLoop(contrib, levels, prev) ==
  IF Len(levels) = 0 THEN <<>>
  ELSE LET level == Head(levels)
           inThis == SelectSeq(contrib, LAMBDA p : p.committed >= level)
           amount == (level - prev) * Len(inThis)
           live == SelectSeq(inThis, LAMBDA p : ~p.folded)
           eligible == [i \in 1..Len(live) |-> live[i].id]
       IN <<[amount |-> amount, eligible |-> eligible]>>
          \o potsLoop(contrib, Tail(levels), level)

buildSidePotsMut(players) ==
  LET contrib == SelectSeq(players, LAMBDA p : p.committed > 0)
      live == SelectSeq(contrib, LAMBDA p : ~p.folded)
  IN IF Len(contrib) = 0 THEN <<>>
     ELSE <<[amount |-> SumCommitted(contrib),
             eligible |-> [i \in 1..Len(live) |-> live[i].id]]>>

buildSidePots(players) ==
  LET contrib == SelectSeq(players, LAMBDA p : p.committed > 0)
  IN IF Len(contrib) = 0 THEN <<>>
     ELSE potsLoop(contrib,
                   sortAsc({contrib[i].committed : i \in 1..Len(contrib)}), 0)

\* Hand.winners over the solved hands of the ids in elig: the ids whose hand
\* is not beaten, in the order of elig.  rk[id] is the strength of id's hand.
handWinners(elig, rk) ==
  SelectSeq(elig, LAMBDA id : \A j \in 1..Len(elig) : rk[elig[j]] <= rk[id])

potSharesMut(amount, n) == [k \in 1..n |-> amount \div n]

\* the chips one pot pays: entry k is what potWinners[k] receives
potShares(amount, n) ==
  LET share == amount \div n
      remainder == amount - share * n
  IN [k \in 1..n |-> IF k = 1 /\ remainder > 0 THEN share + remainder ELSE share]

\* one pot of the loop of resolveShowdown; [] when the pot is skipped
potResult(w, pot, rk) ==
  LET elig == SelectSeq(pot.eligible,
                 LAMBDA id : FindId(w.players, id) # 0 /\ ~w.players[FindId(w.players, id)].folded)
  IN IF Len(elig) = 0
     THEN [amount |-> pot.amount, winners |-> <<>>, shares |-> <<>>]
     ELSE LET potWinners == handWinners(elig, rk)
          IN [amount |-> pot.amount, winners |-> potWinners,
              shares |-> potShares(pot.amount, Len(potWinners))]

\* payouts.get(id): what id receives over all pots
payoutOf(results, id) ==
  SumSeq([k \in 1..Len(results) |->
     SumSeq([j \in 1..Len(results[k].winners) |->
        IF results[k].winners[j] = id THEN results[k].shares[j] ELSE 0])])

resolveShowdown(w, rk) ==
  LET pots == buildSidePots(w.players)
      results == [k \in 1..Len(pots) |-> potResult(w, pots[k], rk)]
  IN [w EXCEPT !.players = [i \in 1..Len(w.players) |->
                   [w.players[i] EXCEPT !.stack = @ + payoutOf(results, w.players[i].id)]],
               !.solved = rk,
               !.potLog = results,
               !.paid = @ + 1]

\* ---- Timers and broadcast ----
setTimeout(w, kind) == [w EXCEPT !.timers = Append(@, kind)]

clearBotTimerMut(w) == w

\* clearTimeout(room.botTimer)
clearBotTimer(w) ==
  [w EXCEPT !.timers = SelectSeq(@, LAMBDA t : t # "bot"), !.botTimer = FALSE]

scheduleBotIfNeeded(w) ==
  IF w.state # "hand" \/ w.currentSeat = null THEN w
  ELSE LET k == FindSeat(w.players, w.currentSeat)
       IN IF k = 0 \/ ~w.players[k].bot THEN w
          ELSE IF w.botTimer THEN w
          ELSE [setTimeout(w, "bot") EXCEPT !.botTimer = TRUE]

broadcastRoom(w) == scheduleBotIfNeeded(w)

awardPotTo(w, i) ==
  LET w1 == [w EXCEPT !.players[i].stack = @ + w.pot,
                      !.state = "reveal",
                      !.currentSeat = null,
                      !.paid = @ + 1,
                      !.award = [to |-> w.players[i].id, pot |-> w.pot,
                                 before |-> [k \in 1..Len(w.players) |-> w.players[k].stack]]]
  IN setTimeout(broadcastRoom(w1), "showdown")

dealBoardMut(w, n) ==
  [w EXCEPT !.community = @ \o [k \in 1..n |-> w.deck[Len(w.deck) + 1 - k]],
            !.solved = NoRanking]

\* the board cards a street pops off the deck
dealBoard(w, n) ==
  [w EXCEPT !.community = @ \o [k \in 1..n |-> w.deck[Len(w.deck) + 1 - k]],
            !.deck = SubSeq(@, 1, Len(@) - n),
            !.solved = NoRanking]

advanceStage(w) ==
  IF w.stage = "preflop"
  THEN startBettingRound(dealBoard([w EXCEPT !.stage = "flop"], 3))
  ELSE IF w.stage = "flop"
  THEN startBettingRound(dealBoard([w EXCEPT !.stage = "turn"], 1))
  ELSE IF w.stage = "turn"
  THEN startBettingRound(dealBoard([w EXCEPT !.stage = "river"], 1))
  ELSE IF w.stage = "river"
  THEN setTimeout(broadcastRoom([w EXCEPT !.state = "reveal", !.currentSeat = null]),
                  "showdown")
  ELSE w

moveToNextActor(w) ==
  [w EXCEPT !.currentSeat = nextActiveSeat(w.players, w.currentSeat, FALSE, FALSE, TRUE)]

\* ---- handlePlayerAction ----
toLowerCase(action) == IF action = "FOLD" THEN "fold" ELSE action

\* the guards that reject an action before it is looked at
notInHand(w) == w.state # "hand"
noCurrentSeat(w) == w.currentSeat = null
notYourTurnMut(w, i) == FALSE

notYourTurn(w, i) == w.players[i].seat # w.currentSeat
cannotAct(w, i) == w.players[i].folded \/ w.players[i].allIn

minTo(w) == IF w.currentBet = 0 THEN w.bigBlind ELSE w.currentBet + w.minRaise

tooSmallMut(w, clamped, maxTotalPossible) == clamped < minTo(w) /\ clamped > maxTotalPossible

\* a raise that is neither a full raise nor the player's whole stack
tooSmall(w, clamped, maxTotalPossible) == clamped < minTo(w) /\ clamped # maxTotalPossible

applyRaiseMut(w, i, total, prevBet) ==
  IF total > prevBet
  THEN [w EXCEPT !.currentBet = total,
                 !.minRaise = total - prevBet,
                 !.players = [k \in 1..Len(w.players) |->
                    IF k = i \/ w.players[k].folded \/ w.players[k].allIn
                    THEN w.players[k]
                    ELSE [w.players[k] EXCEPT !.hasActed = FALSE]]]
  ELSE w

\* currentBet, minRaise and hasActed after player i has brought its street
\* total to total (chips already committed)
applyRaise(w, i, total, prevBet) ==
  IF total > prevBet
  THEN [w EXCEPT !.currentBet = total,
                 !.minRaise = IF total - prevBet >= w.minRaise THEN total - prevBet ELSE @,
                 !.players = [k \in 1..Len(w.players) |->
                    IF k = i \/ w.players[k].folded \/ w.players[k].allIn
                    THEN w.players[k]
                    ELSE [w.players[k] EXCEPT !.hasActed = FALSE]]]
  ELSE w

markActed(w, i) == [w EXCEPT !.players[i].hasActed = TRUE]

allInTotalMut(p) == p.stack

\* the street total an all-in brings the player to
allInTotal(p) == p.betThisRound + p.stack

\* the branch on the action kind: [ok |-> accepted, w |-> room afterwards]
actionBranch(w, i, action, amount) ==
  LET p == w.players[i]
      callAmount == Max(0, w.currentBet - p.betThisRound)
      reject == [ok |-> FALSE, w |-> w]
  IN IF action = "fold"
     THEN [ok |-> TRUE, w |-> [w EXCEPT !.players[i].folded = TRUE,
                                        !.players[i].hasActed = TRUE]]
     ELSE IF action = "check"
     THEN IF callAmount # 0 THEN reject ELSE [ok |-> TRUE, w |-> markActed(w, i)]
     ELSE IF action = "call"
     THEN IF callAmount = 0 THEN [ok |-> TRUE, w |-> markActed(w, i)]
          ELSE [ok |-> TRUE, w |-> markActed(commitChips(w, i, callAmount), i)]
     ELSE IF action = "all-in"
     THEN LET desiredTotal == allInTotal(p)
              toPay == Min(p.stack, Max(0, desiredTotal - p.betThisRound))
          IN IF desiredTotal <= 0 \/ toPay <= 0 THEN reject
             ELSE [ok |-> TRUE,
                   w |-> markActed(applyRaise(commitChips(w, i, toPay), i,
                                              desiredTotal, w.currentBet), i)]
     ELSE IF action = "bet" \/ action = "raise"
     THEN LET desiredTotal == amount
              maxTotalPossible == p.betThisRound + p.stack
              clamped == Min(desiredTotal, maxTotalPossible)
              toPay == clamped - p.betThisRound
          IN IF desiredTotal <= 0 THEN reject
             ELSE IF tooSmall(w, clamped, maxTotalPossible) THEN reject
             ELSE IF toPay <= 0 THEN reject
             ELSE [ok |-> TRUE,
                   w |-> markActed(applyRaise(commitChips(w, i, toPay), i,
                                              clamped, w.currentBet), i)]
     ELSE reject

stillCanAct(w) ==
  \E k \in 1..Len(w.players) :
     ~w.players[k].folded /\ ~w.players[k].allIn /\ w.players[k].stack >= 0

fastForwardMut(w) == w

\* the while loop that deals the remaining streets when nobody can act
RECURSIVE fastForward(_)
fastForward(w) ==
  IF w.state # "hand" THEN w
  ELSE IF stillCanAct(w) THEN w
  ELSE IF w.stage = "preflop" THEN fastForward(dealBoard([w EXCEPT !.stage = "flop"], 3))
  ELSE IF w.stage = "flop" THEN fastForward(dealBoard([w EXCEPT !.stage = "turn"], 1))
  ELSE IF w.stage = "turn" THEN fastForward(dealBoard([w EXCEPT !.stage = "river"], 1))
  ELSE IF w.stage = "river"
  THEN fastForward([w EXCEPT !.state = "reveal", !.currentSeat = null])
  ELSE w

\* what follows an accepted action
afterAction(w) ==
  LET w1 == IF w.botTimer THEN clearBotTimer(w) ELSE w
      survivor == loneSurvivor(w1)
  IN IF survivor # 0 THEN broadcastRoom(awardPotTo(w1, survivor))
     ELSE IF shouldEndBettingRound(w1)
     THEN LET w2 == fastForward(w1)
              w3 == IF w2.state = "hand" THEN advanceStage(w2) ELSE w2
          IN IF w3.state = "reveal"
             THEN setTimeout(broadcastRoom(w3), "showdown")
             ELSE broadcastRoom(w3)
     ELSE broadcastRoom(moveToNextActor(w1))

handlePlayerAction(w, i, action, amount) ==
  IF i = 0 THEN w
  ELSE IF notInHand(w) THEN w
  ELSE IF noCurrentSeat(w) THEN w
  ELSE IF notYourTurn(w, i) THEN w
  ELSE IF cannotAct(w, i) THEN w
  ELSE LET r == actionBranch(w, i, toLowerCase(action), amount)
       IN IF r.ok THEN afterAction(r.w) ELSE w

\* ---- Timer callbacks ----
resetPlayers(w, keepBusted) ==
  [w EXCEPT !.state = "lobby",
            !.stage = "preflop",
            !.solved = NoRanking,
            !.players = [i \in 1..Len(w.players) |->
               [w.players[i] EXCEPT !.folded = (keepBusted /\ w.players[i].stack <= 0),
                                    !.allIn = FALSE,
                                    !.betThisRound = 0,
                                    !.committed = 0,
                                    !.hole = <<>>,
                                    !.hasActed = FALSE]]]

\* the inner setTimeout callback: back to lobby, then the next hand
nextHandCallback(w, kind, off) ==
  IF ~w.inRooms THEN w
  ELSE LET w1 == resetPlayers(w, kind = "nexthand")
           w2 == IF Cardinality(activeSeats(w1.players)) >= 2
                 THEN beginHand([w1 EXCEPT !.state = "hand"], off)
                 ELSE w1
       IN broadcastRoom(w2)

showdownCallbackMut(w, kind, rk) ==
  IF ~w.inRooms THEN w
  ELSE broadcastRoom([resolveShowdown(w, rk) EXCEPT !.state = "showdown",
                                                    !.currentSeat = null])

\* the outer setTimeout callback: reveal -> showdown
showdownCallback(w, kind, rk) ==
  IF ~w.inRooms THEN w
  ELSE LET w1 == resolveShowdown(w, rk)
           w2 == [w1 EXCEPT !.state = "showdown", !.currentSeat = null]
       IN setTimeout(broadcastRoom(w2),
                     IF kind = "showdown" THEN "nexthand" ELSE "nexthandD")

\* the bot timer callback; bluff and loose are the two Math.random() tests
botCallback(w, bluff, loose) ==
  LET w0 == [w EXCEPT !.botTimer = FALSE]
      k == IF w0.currentSeat = null THEN 0 ELSE FindSeat(w0.players, w0.currentSeat)
  IN IF k = 0 THEN w0
     ELSE IF w0.players[k].folded \/ w0.players[k].allIn THEN w0
     ELSE LET bot == w0.players[k]
              callAmount == Max(0, w0.currentBet - bot.betThisRound)
          IN IF callAmount = 0
             THEN IF bluff /\ bot.stack > w0.bigBlind
                  THEN handlePlayerAction(w0, k, "bet",
                          Min(bot.betThisRound + w0.bigBlind, bot.betThisRound + bot.stack))
                  ELSE handlePlayerAction(w0, k, "call", 0)
             ELSE IF callAmount <= Max(1, bot.stack \div 4) \/ loose
                  THEN handlePlayerAction(w0, k, "call", 0)
                  ELSE handlePlayerAction(w0, k, "fold", 0)

\* ---- Socket handlers ----
joinLobby(w, id) ==
  IF ~w.inRooms THEN w
  ELSE IF Len(w.players) >= MAX_PLAYERS THEN w
  ELSE IF w.state # "lobby" THEN w
  ELSE IF assignSeat(w.players) = null THEN w
  ELSE broadcastRoom([w EXCEPT !.players = Append(@, newPlayer(id, assignSeat(w.players), FALSE))])

\* Math.floor(Number(x) || dflt), x in halves; the result is a whole number
\* or Infinity
floorOr(x, dflt) ==
  IF x = 0 THEN dflt
  ELSE IF x = Infinity THEN Infinity
  ELSE x \div 2

\* sb + 1 in floating point
plusOne(x) == IF x = Infinity THEN Infinity ELSE x + 1

setBlinds(w, id, smallBlind, bigBlind) ==
  IF ~w.inRooms THEN w
  ELSE IF id # w.hostId THEN w
  ELSE LET sb == Max(1, floorOr(smallBlind, w.smallBlind))
           bb == Max(plusOne(sb), floorOr(bigBlind, w.bigBlind))
       IN broadcastRoom([w EXCEPT !.smallBlind = sb, !.bigBlind = bb])

startGameMut(w, id, off) ==
  IF ~w.inRooms THEN w
  ELSE IF w.state # "lobby" /\ w.state # "showdown" THEN w
  ELSE broadcastRoom(beginHand(w, off))

startGame(w, id, off) ==
  IF ~w.inRooms THEN w
  ELSE IF id # w.hostId THEN w
  ELSE IF w.state # "lobby" /\ w.state # "showdown" THEN w
  ELSE broadcastRoom(beginHand(w, off))

addBot(w, id, botId) ==
  IF ~w.inRooms THEN w
  ELSE IF id # w.hostId THEN w
  ELSE IF assignSeat(w.players) = null THEN w
  ELSE broadcastRoom([w EXCEPT !.players = Append(@, newPlayer(botId, assignSeat(w.players), TRUE))])

playerAction(w, id, action, amount) ==
  IF ~w.inRooms THEN w
  ELSE handlePlayerAction(w, FindId(w.players, id), action, amount)

RemoveAt(s, i) == SubSeq(s, 1, i - 1) \o SubSeq(s, i + 1, Len(s))

\* the auto-fold of the disconnect handler
disconnectFold(w, i) ==
  LET w1 == [w EXCEPT !.players[i].folded = TRUE, !.players[i].hasActed = TRUE]
      survivor == loneSurvivor(w1)
  IN IF survivor # 0 THEN awardPotTo(w1, survivor)
     ELSE IF shouldEndBettingRound(w1)
     THEN LET w2 == advanceStage(w1)
          IN IF w2.state = "reveal"
             THEN setTimeout(broadcastRoom(w2), "showdownD")
             ELSE w2
     ELSE moveToNextActor(w1)

disconnect(w, id) ==
  LET i == FindId(w.players, id)
  IN IF ~w.inRooms \/ i = 0 THEN w
     ELSE LET w1 == [w EXCEPT !.players[i].connected = FALSE]
              w2 == IF w1.state = "lobby"
                    THEN [w1 EXCEPT !.players = RemoveAt(@, i)]
                    ELSE IF w1.state = "hand" /\ w1.currentSeat = w1.players[i].seat
                            /\ ~w1.players[i].folded /\ ~w1.players[i].allIn
                    THEN disconnectFold(w1, i)
                    ELSE w1
              w3 == IF w2.hostId = id /\ Len(w2.players) > 0
                    THEN [w2 EXCEPT !.hostId = w2.players[1].id]
                    ELSE w2
          IN IF Len(w3.players) = 0
             THEN [w3 EXCEPT !.inRooms = FALSE]
             ELSE broadcastRoom(w3)

\* ---- Snapshots ----
\* the "??" a snapshot shows in place of a card (cards are 1..DeckSize)
Masked == 0

seatedPlayers(ps) ==
  LET seats == sortAsc({ps[i].seat : i \in 1..Len(ps)})
  IN [k \in 1..Len(seats) |-> ps[FindSeat(ps, seats[k])]]

seatOfPlayer(ps, playerId) ==
  IF FindId(ps, playerId) = 0 THEN null ELSE ps[FindId(ps, playerId)].seat

maskHoleMut(hole) == hole

\* p.hole.length ? ["??","??"] : []
maskHole(hole) == IF Len(hole) > 0 THEN <<Masked, Masked>> ELSE <<>>

\* Hand.solve(community ++ hole): whatever it returns is determined by, and
\* may tell, these cards; <<>> stands for null
getHandRank(community, hole) ==
  IF Len(hole) # 2 THEN <<>> ELSE <<[community |-> community, hole |-> hole]>>

\* the hands and equities of the players still in, determined by the board
\* and their hole cards
calculateHandEquity(w) ==
  LET remaining == SelectSeq(w.players, LAMBDA p : ~p.folded)
  IN IF Len(remaining) < 2 THEN <<>>
     ELSE [k \in 1..Len(remaining) |->
             [playerId |-> remaining[k].id, board |-> w.community,
              hole |-> remaining[k].hole]]

sanitizeFor(w, viewerId) ==
  LET v == FindId(w.players, viewerId)
      isSpectator == v # 0 /\ w.players[v].stack <= 0
      sp == seatedPlayers(w.players)
  IN [hostId |-> w.hostId, state |-> w.state, stage |-> w.stage,
      dealerSeat |-> w.dealerSeat, smallBlind |-> w.smallBlind,
      bigBlind |-> w.bigBlind, pot |-> w.pot, community |-> w.community,
      currentSeat |-> w.currentSeat, currentBet |-> w.currentBet,
      minRaise |-> w.minRaise,
      players |-> [k \in 1..Len(sp) |->
         [id |-> sp[k].id, seat |-> sp[k].seat, stack |-> sp[k].stack,
          folded |-> sp[k].folded, allIn |-> sp[k].allIn,
          betThisRound |-> sp[k].betThisRound, committed |-> sp[k].committed,
          connected |-> sp[k].connected,
          hole |-> IF w.state = "showdown" \/ w.state = "reveal"
                      \/ sp[k].id = viewerId \/ isSpectator
                   THEN sp[k].hole ELSE maskHole(sp[k].hole),
          handRank |-> IF isSpectator /\ w.state = "hand" /\ Len(sp[k].hole) = 2
                          /\ ~sp[k].folded
                       THEN getHandRank(w.community, sp[k].hole) ELSE <<>>]],
      you |-> [id |-> viewerId, seat |-> seatOfPlayer(w.players, viewerId),
               isSpectator |-> isSpectator],
      equityInfo |-> IF isSpectator /\ w.state = "hand"
                     THEN <<calculateHandEquity(w)>> ELSE <<>>]


\* ---- State ----
\* The fields of the room object and of its players; inRooms says whether the
\* room is still in the rooms map, timers holds the pending setTimeout
\* callbacks in the order they were set, open the sockets not yet disconnected
\* (a socket id is never reused).  The last line is history kept for the
\* properties: the strengths Hand.solve gave the current cards, the number of
\* hands begun, the stacks' sum when the hand began, the payouts applied in
\* the hand, the fold-out award, and the pots of the last showdown.  The log,
\* winnerInfo, lastAction, lastAggressorSeat and the timestamps are written
\* but never read by the engine and are left out.
VARIABLES inRooms, hostId, state, stage, dealerSeat, smallBlind, bigBlind, pot,
          community, deck, currentSeat, currentBet, minRaise, players,
          botTimer, timers, open,
          solved, handNo, handStart, paid, award, potLog

vars == <<inRooms, hostId, state, stage, dealerSeat, smallBlind, bigBlind, pot,
          community, deck, currentSeat, currentBet, minRaise, players,
          botTimer, timers, open, solved, handNo, handStart, paid, award, potLog>>

\* the room and the timer queue as one value
Cur ==
  [inRooms |-> inRooms, hostId |-> hostId, state |-> state, stage |-> stage,
   dealerSeat |-> dealerSeat, smallBlind |-> smallBlind, bigBlind |-> bigBlind,
   pot |-> pot, community |-> community, deck |-> deck,
   currentSeat |-> currentSeat, currentBet |-> currentBet, minRaise |-> minRaise,
   players |-> players, botTimer |-> botTimer, timers |-> timers, open |-> open,
   solved |-> solved, handNo |-> handNo, handStart |-> handStart,
   paid |-> paid, award |-> award, potLog |-> potLog]

Apply(w) ==
  /\ inRooms' = w.inRooms
  /\ hostId' = w.hostId
  /\ state' = w.state
  /\ stage' = w.stage
  /\ dealerSeat' = w.dealerSeat
  /\ smallBlind' = w.smallBlind
  /\ bigBlind' = w.bigBlind
  /\ pot' = w.pot
  /\ community' = w.community
  /\ deck' = w.deck
  /\ currentSeat' = w.currentSeat
  /\ currentBet' = w.currentBet
  /\ minRaise' = w.minRaise
  /\ players' = w.players
  /\ botTimer' = w.botTimer
  /\ timers' = w.timers
  /\ open' = w.open
  /\ solved' = w.solved
  /\ handNo' = w.handNo
  /\ handStart' = w.handStart
  /\ paid' = w.paid
  /\ award' = w.award
  /\ potLog' = w.potLog

\* the room right after createLobby by socket "h"
createLobby ==
  [inRooms |-> TRUE, hostId |-> "h", state |-> "lobby", stage |-> "preflop",
   dealerSeat |-> 0, smallBlind |-> InitSmallBlind, bigBlind |-> InitBigBlind,
   pot |-> 0, community |-> <<>>, deck |-> <<>>, currentSeat |-> null,
   currentBet |-> 0, minRaise |-> InitBigBlind,
   players |-> <<newPlayer("h", 0, FALSE)>>, botTimer |-> FALSE, timers |-> <<>>,
   open |-> Sockets,
   solved |-> NoRanking, handNo |-> 0, handStart |-> 0, paid |-> 0,
   award |-> NoAward, potLog |-> <<>>]

StartFrom(w) ==
  /\ inRooms = w.inRooms
  /\ hostId = w.hostId
  /\ state = w.state
  /\ stage = w.stage
  /\ dealerSeat = w.dealerSeat
  /\ smallBlind = w.smallBlind
  /\ bigBlind = w.bigBlind
  /\ pot = w.pot
  /\ community = w.community
  /\ deck = w.deck
  /\ currentSeat = w.currentSeat
  /\ currentBet = w.currentBet
  /\ minRaise = w.minRaise
  /\ players = w.players
  /\ botTimer = w.botTimer
  /\ timers = w.timers
  /\ open = w.open
  /\ solved = w.solved
  /\ handNo = w.handNo
  /\ handStart = w.handStart
  /\ paid = w.paid
  /\ award = w.award
  /\ potLog = w.potLog

Init == StartFrom(createLobby)

\* a socket that is connected and seated in the room
Seated(id) ==
  /\ id \in open
  /\ FindId(players, id) # 0

\* the strengths Hand.solve may give the hands of the players still in:
\* a pure function of the cards, so the value already drawn is kept
Rankings(w) ==
  LET live == {w.players[i].id : i \in {j \in 1..Len(w.players) : ~w.players[j].folded}}
  IN IF w.solved # NoRanking THEN {w.solved}
     ELSE {rk \in [Ids \cup live -> 0..Cardinality(live)] :
             /\ \A id \in Ids \cup live : (rk[id] = 0) <=> (id \notin live)
             /\ \A id \in live : rk[id] = 1 \/ \E o \in live : rk[o] = rk[id] - 1}

\* a timer may fire before one set earlier only if its delay can be shorter
delayMin(kind) ==
  IF kind = "bot" THEN BOT_DELAY_MIN
  ELSE IF kind = "showdown" \/ kind = "showdownD" THEN REVEAL_DELAY
  ELSE NEXT_HAND_DELAY

delayMax(kind) ==
  IF kind = "bot" THEN BOT_DELAY_MIN + BOT_DELAY_SPREAD - 1 ELSE delayMin(kind)

CanFire(i) == \A j \in 1..(i - 1) : delayMax(timers[j]) > delayMin(timers[i])

Fired(i) == [Cur EXCEPT !.timers = RemoveAt(@, i)]

\* ---- Actions ----
JoinLobby ==
  \E id \in Sockets :
     /\ id \in open
     /\ FindId(players, id) = 0
     /\ Apply(joinLobby(Cur, id))

SetBlinds ==
  \E id \in Sockets, b \in BlindInputs :
     /\ Seated(id)
     /\ Apply(setBlinds(Cur, id, b[1], b[2]))

StartGame ==
  \E id \in Sockets, off \in Shuffles :
     /\ Seated(id)
     /\ handNo < MaxHands
     /\ Apply(startGame(Cur, id, off))

AddBot ==
  \E id \in Sockets, b \in BotIds :
     /\ Seated(id)
     /\ FindId(players, b) = 0
     /\ Apply(addBot(Cur, id, b))

PlayerAction ==
  \E id \in Sockets, action \in Kinds :
     \E amount \in (IF action \in {"bet", "raise"} THEN Amounts ELSE {0}) :
        /\ Seated(id)
        /\ Apply(playerAction(Cur, id, action, amount))

PlayerActionHand ==
  \E id \in Sockets, action \in Kinds :
     \E amount \in (IF action \in {"bet", "raise"} THEN HandAmounts ELSE {0}) :
        /\ Seated(id)
        /\ Apply(playerAction(Cur, id, action, amount))

Disconnect ==
  \E id \in open :
     Apply(disconnect([Cur EXCEPT !.open = @ \ {id}], id))

ShowdownTimer ==
  \E i \in 1..Len(timers) :
     /\ timers[i] \in {"showdown", "showdownD"}
     /\ CanFire(i)
     /\ \E rk \in Rankings(Cur) : Apply(showdownCallback(Fired(i), timers[i], rk))

NextHandTimer ==
  \E i \in 1..Len(timers), off \in Shuffles :
     /\ timers[i] \in {"nexthand", "nexthandD"}
     /\ CanFire(i)
     /\ nextHandCallback(Fired(i), timers[i], off).handNo <= MaxHands
     /\ Apply(nextHandCallback(Fired(i), timers[i], off))

BotTimer ==
  \E i \in 1..Len(timers), bluff \in BOOLEAN, loose \in BOOLEAN :
     /\ timers[i] = "bot"
     /\ CanFire(i)
     /\ Apply(botCallback(Fired(i), bluff, loose))

\* Two human sockets play: joining, blinds, hands, the reveal/showdown/next-hand
\* timers.
Next ==
  \/ JoinLobby
  \/ SetBlinds
  \/ StartGame
  \/ PlayerAction
  \/ ShowdownTimer
  \/ NextHandTimer

Spec == Init /\ [][Next]_vars

\* One hand between the two humans, from the deal to the showdown: the host
\* may add a bot at any time, a socket may drop, and nobody starts a second hand.
InitHand ==
  \E off \in Shuffles :
     StartFrom(startGame(joinLobby(createLobby, "p"), "h", off))

NextHand ==
  \/ AddBot
  \/ PlayerActionHand
  \/ Disconnect
  \/ BotTimer
  \/ ShowdownTimer

SpecHand == InitHand /\ [][NextHand]_vars

\* ENABLED <<ShowdownTimer>>_vars: a reveal timer is due (firing it always
\* takes it off the queue, so the step changes vars)
ShowdownPending ==
  \E i \in 1..Len(timers) :
     /\ timers[i] \in {"showdown", "showdownD"}
     /\ CanFire(i)

\* ENABLED <<NextHandTimer>>_vars
NextHandPending ==
  \E i \in 1..Len(timers), off \in Shuffles :
     /\ timers[i] \in {"nexthand", "nexthandD"}
     /\ CanFire(i)
     /\ nextHandCallback(Fired(i), timers[i], off).handNo <= MaxHands

\* Node runs every pending timer callback once its delay has passed: weak
\* fairness of the two timer actions, WF_vars(ShowdownTimer) and
\* WF_vars(NextHandTimer), with ENABLED written out as the predicates above.
\* The hands of two humans from the first deal on, played with folds, calls
\* and all-ins and dealt one after the other by the timers; a socket may drop.
LiveKinds == {"fold", "call", "all-in"}

PlayerActionLive ==
  \E id \in Sockets, action \in LiveKinds :
     /\ Seated(id)
     /\ Apply(playerAction(Cur, id, action, 0))

NextLive ==
  \/ PlayerActionLive
  \/ Disconnect
  \/ ShowdownTimer
  \/ NextHandTimer

SpecLive ==
  /\ InitHand
  /\ [][NextLive]_vars
  /\ ([]<>(~ShowdownPending) \/ []<><<ShowdownTimer>>_vars)
  /\ ([]<>(~NextHandPending) \/ []<><<NextHandTimer>>_vars)

\* The showdown of a hand in which three players committed any amounts and
\* any of them but one folded.
CommittedInputs == {0, 5, 100, 300}

potsRoom(c, f) ==
  [createLobby EXCEPT
     !.state = "reveal",
     !.stage = "river",
     !.timers = <<"showdown">>,
     !.pot = c[1] + c[2] + c[3],
     !.handNo = 1,
     !.handStart = c[1] + c[2] + c[3],
     !.deck = SubSeq(freshDeck(0), 1, DeckSize - 11),
     !.community = SubSeq(freshDeck(0), DeckSize - 10, DeckSize - 6),
     !.players = [i \in 1..3 |->
        [newPlayer(<<"h", "p", "bot">>[i], i - 1, i = 3) EXCEPT
           !.stack = 0, !.committed = c[i], !.folded = f[i], !.allIn = ~f[i],
           !.hole = SubSeq(freshDeck(0), DeckSize - 7 + 2 * i, DeckSize - 6 + 2 * i)]]]

InitPots ==
  \E c \in [1..3 -> CommittedInputs], f \in [1..3 -> BOOLEAN] :
     /\ \E i \in 1..3 : ~f[i]
     /\ StartFrom(potsRoom(c, f))

SpecPots == InitPots /\ [][ShowdownTimer]_vars

\* One hand at a table of three, from the deal to the showdown: the two
\* humans and a bot were seated in the lobby and come to the hand with the
\* stacks that earlier hands left them, one of them short or busted.
TableStacks == {<<50, 2975, 2975>>, <<0, 3000, 3000>>, <<2000, 2000, 2000>>}

TableAmounts == {200}

tableLobby(st) ==
  LET w == addBot(joinLobby(createLobby, "p"), "h", "bot")
  IN [w EXCEPT !.players = [i \in 1..Len(w.players) |->
                              [w.players[i] EXCEPT !.stack = st[i]]]]

InitTable ==
  \E st \in TableStacks, off \in Shuffles :
     StartFrom(startGame(tableLobby(st), "h", off))

PlayerActionTable ==
  \E id \in Sockets, action \in Kinds :
     \E amount \in (IF action \in {"bet", "raise"} THEN TableAmounts ELSE {0}) :
        /\ Seated(id)
        /\ Apply(playerAction(Cur, id, action, amount))

NextTable ==
  \/ PlayerActionTable
  \/ Disconnect
  \/ BotTimer
  \/ ShowdownTimer

SpecTable == InitTable /\ [][NextTable]_vars

\* A room run by its host alone: players join, the host sets the blinds and
\* starts every hand, also the one after a showdown, before the next-hand
\* timer does; the hands are played with folds, calls and all-ins.
NextHost ==
  \/ JoinLobby
  \/ SetBlinds
  \/ StartGame
  \/ PlayerActionLive
  \/ ShowdownTimer

SpecHost == Init /\ [][NextHost]_vars

\* Two humans and a bot at one table over three hands dealt one after the
\* other by the timers: with three seats the first player to act changes from
\* hand to hand between the bot and a human.
MaxBotHands == MaxHands + 1

BotStacks == {<<2000, 2000, 2000>>}

InitBot ==
  \E st \in BotStacks, off \in Shuffles :
     StartFrom(startGame(tableLobby(st), "h", off))

NextHandTimerBot ==
  \E i \in 1..Len(timers), off \in Shuffles :
     /\ timers[i] \in {"nexthand", "nexthandD"}
     /\ CanFire(i)
     /\ nextHandCallback(Fired(i), timers[i], off).handNo <= MaxBotHands
     /\ Apply(nextHandCallback(Fired(i), timers[i], off))

\* the humans play the first hand only; afterwards only the timers run
PlayerActionBot ==
  /\ handNo = 1
  /\ PlayerActionLive

NextBot ==
  \/ PlayerActionBot
  \/ BotTimer
  \/ ShowdownTimer
  \/ NextHandTimerBot

SpecBot == InitBot /\ [][NextBot]_vars

\* Four seats (two humans, two bots) between two hands, with every mix of
\* busted, short and deep stacks and the button on any seat; the host starts
\* the one hand that is left to play, which is followed up to its last bet.
BeginStackValues == {0, 5, 15, 3000}

BeginSeats == 4

beginLobby(st, d) ==
  LET w == addBot(addBot(joinLobby(createLobby, "p"), "h", "bot"), "h", "bot2")
  IN [w EXCEPT !.dealerSeat = d,
               !.handNo = MaxHands - 1,
               !.players = [i \in 1..Len(w.players) |->
                              [w.players[i] EXCEPT !.stack = st[i],
                                                   !.folded = (st[i] <= 0)]]]

InitBegin ==
  \E st \in [1..BeginSeats -> BeginStackValues], d \in 0..(BeginSeats - 1) :
     StartFrom(beginLobby(st, d))

NextBegin ==
  \/ StartGame
  \/ PlayerActionLive
  \/ BotTimer

SpecBegin == InitBegin /\ [][NextBegin]_vars

\* ---- Tables with empty seats between the players ----
\* Four players are seated; others who sat between them have left the lobby.
\* Each player carries the flags and the stack the last hand left behind.
SeatLayouts == {<<0, 1, 2, 3>>, <<0, 2, 5, 7>>, <<0, 3, 4, 7>>}

\* fewer chips than the small blind
ShortStack == 5

SeatConditions == {"ready", "short", "folded", "allInWon", "allInLost", "busted"}

conditioned(player, c) ==
  [player EXCEPT !.folded = (c \in {"folded", "busted"}),
                 !.allIn = (c \in {"allInWon", "allInLost"}),
                 !.stack = IF c \in {"allInLost", "busted"} THEN 0
                           ELSE IF c = "short" THEN ShortStack ELSE @]

seatedLobby(layout, cond) ==
  LET w == addBot(addBot(joinLobby(createLobby, "p"), "h", "bot"), "h", "bot2")
  IN [w EXCEPT !.handNo = MaxHands - 1,
               !.players = [i \in 1..Len(w.players) |->
                              conditioned([w.players[i] EXCEPT !.seat = layout[i]],
                                          cond[i])]]

InitSeats ==
  \E layout \in SeatLayouts, cond \in [1..BeginSeats -> SeatConditions] :
     StartFrom(seatedLobby(layout, cond))

SpecSeats == InitSeats /\ [][StartGame]_vars

\* The same table with two short stacks next to a deep one, so that the deep
\* stack can put in more than both others hold and give up the hand later.
SideStacks == {<<100, 3000, 100>>, <<100, 3000, 300>>}

InitSide ==
  \E st \in SideStacks, off \in Shuffles :
     StartFrom(startGame(tableLobby(st), "h", off))

SpecSide == InitSide /\ [][NextTable]_vars

\* The deal that follows a hand at a table of three: the room is back in the
\* lobby with the button where the last hand left it and with the stacks that
\* hand left, one of the players possibly busted; the host starts the hand
\* and it is played with folds, calls and all-ins.
DealStacks ==
  {<<2000, 2000, 2000>>, <<3000, 0, 3000>>, <<0, 3000, 3000>>,
   <<3000, 3000, 0>>, <<20, 2980, 3000>>}

DealDealers == {0, 1, 2}

dealLobby(st, d) ==
  LET w == tableLobby(st)
  IN [w EXCEPT !.dealerSeat = d,
               !.handNo = 1,
               !.players = [i \in 1..Len(w.players) |->
                              [w.players[i] EXCEPT !.folded = (st[i] <= 0)]]]

InitDeal ==
  \E st \in DealStacks, d \in DealDealers : StartFrom(dealLobby(st, d))

NextDeal ==
  \/ StartGame
  \/ PlayerActionLive
  \/ BotTimer
  \/ ShowdownTimer

SpecDeal == InitDeal /\ [][NextDeal]_vars

\* The lobby: the second human may join, a socket may drop, and any socket
\* may send setBlinds with any numbers.
SetBlindsAny ==
  \E id \in Sockets, sb \in BlindValues, bb \in BlindValues :
     /\ id \in open
     /\ Apply(setBlinds(Cur, id, sb, bb))

NextBlinds ==
  \/ JoinLobby
  \/ SetBlindsAny
  \/ Disconnect

SpecBlinds == Init /\ [][NextBlinds]_vars

\* ======================= Claims =======================

\* a player action that the room accepted in this step
AcceptedAction ==
  \E id \in Sockets, action \in Kinds, amount \in HandAmounts :
     /\ Seated(id)
     /\ playerAction(Cur, id, action, amount) # Cur
     /\ Apply(playerAction(Cur, id, action, amount))

\* C1: from the blinds until a payout is applied, after every accepted player
\* action the stacks plus the pot equal the stacks at the start of the hand.
C1_ChipsConservedInHand ==
  [][AcceptedAction /\ paid' = 0
       => SumStacks(players') + pot' = handStart']_vars

\* C2: once the showdown payout of a hand that was not won by a fold has been
\* applied, the stacks sum to what they summed to when the hand started.
C2_ShowdownConservesChips ==
  (state = "showdown" /\ award = NoAward /\ paid >= 1)
     => SumStacks(players) = handStart

\* C3: a hand won because everybody else folded pays the survivor exactly the
\* pot, changes no other stack and applies no showdown payout.
C3_LoneSurvivorGetsPotOnce ==
  (state = "showdown" /\ award # NoAward /\ Len(award.before) = Len(players))
     => /\ paid = 1
        /\ \A i \in 1..Len(players) :
              players[i].stack = award.before[i]
                 + (IF players[i].id = award.to THEN award.pot ELSE 0)

\* C4: an action of a player whose seat is not currentSeat changes no player's
\* stack, betThisRound or folded flag, nor pot, currentBet or currentSeat.
C4_NotYourTurnIsNoOp ==
  \A i \in 1..Len(players), action \in Kinds, amount \in HandAmounts :
     players[i].seat # currentSeat
        => LET w == handlePlayerAction(Cur, i, action, amount)
           IN /\ \A k \in 1..Len(players) :
                    /\ w.players[k].stack = players[k].stack
                    /\ w.players[k].betThisRound = players[k].betThisRound
                    /\ w.players[k].folded = players[k].folded
              /\ w.pot = pot
              /\ w.currentBet = currentBet
              /\ w.currentSeat = currentSeat

\* a hand is on and a player who could act is waiting for another seat's turn
C4_Witness ==
  /\ state = "hand"
  /\ currentSeat # null
  /\ \E i \in 1..Len(players) :
        /\ players[i].seat # currentSeat
        /\ players[i].id \in open
        /\ ~players[i].folded /\ ~players[i].allIn /\ players[i].stack > 0

KnownKinds == {"fold", "check", "call", "all-in", "bet", "raise"}

\* the cases in which the claim C5 says the action is ignored
IllegalAction(i, action, amount) ==
  LET p == players[i]
      full == p.betThisRound + p.stack
      total == IF amount < full THEN amount ELSE full
      least == IF currentBet = 0 THEN bigBlind ELSE currentBet + minRaise
  IN \/ state # "hand"
     \/ p.folded
     \/ p.allIn
     \/ action = "check" /\ p.betThisRound < currentBet
     \/ action \in {"bet", "raise"} /\ total < least /\ total # full
     \/ action \notin KnownKinds /\ action # "FOLD"

\* C5: an action outside a hand, by a folded or all-in player, a check facing a
\* bet, a raise below the minimum that is not all-in, or an unknown kind leaves
\* the room and its timers exactly as they were.
C5_IllegalActionIsNoOp ==
  \A i \in 1..Len(players), action \in Kinds, amount \in HandAmounts :
     IllegalAction(i, action, amount)
        => handlePlayerAction(Cur, i, action, amount) = Cur

\* the player to act is offered a raise below the minimum that is not all-in
C5_Witness ==
  /\ state = "hand"
  /\ \E i \in 1..Len(players), amount \in HandAmounts :
        /\ players[i].seat = currentSeat
        /\ ~players[i].folded /\ ~players[i].allIn
        /\ amount > 0
        /\ amount > players[i].betThisRound
        /\ amount < players[i].betThisRound + players[i].stack
        /\ IllegalAction(i, "raise", amount)

\* C6: shouldEndBettingRound is true exactly when every player that is neither
\* folded nor all-in has acted and has matched currentBet.
C6_RoundClosure ==
  shouldEndBettingRound(Cur)
     <=> \A i \in 1..Len(players) :
            (~players[i].folded /\ ~players[i].allIn)
               => (players[i].hasActed /\ players[i].betThisRound = currentBet)

\* every bet is matched, somebody has still to act, and the round stays open
C6_Witness ==
  /\ state = "hand"
  /\ ~shouldEndBettingRound(Cur)
  /\ \A i \in 1..Len(players) :
        (~players[i].folded /\ ~players[i].allIn) => players[i].betThisRound = currentBet

PositiveLevels == {players[i].committed : i \in {j \in 1..Len(players) : players[j].committed > 0}}
LevelNo(k) == CHOOSE L \in PositiveLevels : Cardinality({m \in PositiveLevels : m < L}) = k - 1
LevelBelow(k) == IF k = 1 THEN 0 ELSE LevelNo(k - 1)

\* C7: buildSidePots returns one pot per distinct positive committed level, in
\* ascending order, each worth (L - P) times the number of players committed to
\* L or more, open to the unfolded ones among them; the pots sum to all committed.
C7_SidePots ==
  LET pots == buildSidePots(players)
  IN /\ Len(pots) = Cardinality(PositiveLevels)
     /\ \A k \in 1..Len(pots) :
           /\ pots[k].amount = (LevelNo(k) - LevelBelow(k))
                 * Cardinality({i \in 1..Len(players) : players[i].committed >= LevelNo(k)})
           /\ {pots[k].eligible[j] : j \in 1..Len(pots[k].eligible)}
                 = {players[i].id : i \in {j \in 1..Len(players) :
                       ~players[j].folded /\ players[j].committed >= LevelNo(k)}}
           /\ Len(pots[k].eligible)
                 = Cardinality({j \in 1..Len(players) :
                       ~players[j].folded /\ players[j].committed >= LevelNo(k)})
     /\ SumSeq([k \in 1..Len(pots) |-> pots[k].amount]) = SumCommitted(players)

\* a showdown over three different committed levels, one of them of a folder
C7_Witness ==
  /\ paid = 1
  /\ Cardinality(PositiveLevels) = 3
  /\ \E i \in 1..Len(players) : players[i].folded /\ players[i].committed > 0
  /\ Len(potLog) = 3

AllCards ==
  deck \o community
     \o [k \in 1..(2 * Len(players)) |->
           IF Len(players[(k + 1) \div 2].hole) >= 2 - (k % 2)
           THEN players[(k + 1) \div 2].hole[2 - (k % 2)] ELSE 0]

HoleCount == SumSeq([i \in 1..Len(players) |-> Len(players[i].hole)])

\* C8: from the deal until the showdown is resolved, deck, hole cards and board
\* hold 52 cards together, and no card twice.
C8_DeckIntegrity ==
  state \in {"hand", "reveal"}
     => /\ Len(deck) + HoleCount + Len(community) = DeckSize
        /\ Cardinality({AllCards[k] : k \in 1..Len(AllCards)} \ {0}) = DeckSize

\* a hand that was played to the river and is waiting for its showdown
C8_Witness ==
  /\ state = "reveal"
  /\ Len(community) = 5
  /\ HoleCount = 4
  /\ award = NoAward

\* what the claim C9 says winner j of n receives from a pot
ClaimedShare(amount, n, j) == (amount \div n) + (IF j = 1 THEN amount % n ELSE 0)

\* C9: each pot with n >= 1 winners pays every winner floor(amount / n) and the
\* first winner amount mod n more; the payouts of a pot sum to its amount, and
\* the showdown adds exactly these shares to the winners' stacks.
C9_OddChip ==
  [][(paid' = paid + 1 /\ state' = "showdown")
        => /\ potShares(101, 2) = <<51, 50>>
           /\ \A k \in 1..Len(potLog') :
                 LET n == Len(potLog'[k].winners)
                 IN n >= 1
                    => /\ \A j \in 1..n :
                             potLog'[k].shares[j] = ClaimedShare(potLog'[k].amount, n, j)
                       /\ SumSeq(potLog'[k].shares) = potLog'[k].amount
           /\ \A i \in 1..Len(players) :
                 players'[i].stack = players[i].stack +
                    SumSeq([k \in 1..Len(potLog') |->
                       SumSeq([j \in 1..Len(potLog'[k].winners) |->
                          IF potLog'[k].winners[j] = players[i].id
                          THEN ClaimedShare(potLog'[k].amount, Len(potLog'[k].winners), j)
                          ELSE 0])])]_vars

\* an odd pot was split between two tied winners
C9_Witness ==
  /\ paid = 1
  /\ \E k \in 1..Len(potLog) :
        /\ Len(potLog[k].winners) = 2
        /\ potLog[k].amount % 2 = 1
        /\ potLog[k].shares[1] = potLog[k].shares[2] + 1

StageNo(s) == IF s = "preflop" THEN 0 ELSE IF s = "flop" THEN 1 ELSE IF s = "turn" THEN 2 ELSE 3
BoardOf(s) == IF s = "preflop" THEN 0 ELSE StageNo(s) + 2

\* C10: state and stage only move along lobby -> preflop -> flop -> turn ->
\* river -> reveal -> showdown -> lobby or a new hand, a fold-out going from
\* any street to reveal; no street is skipped without its cards, and neither a
\* new hand nor the lobby is entered from hand or from reveal.
C10_Lifecycle ==
  [][/\ state = "lobby"
          => state' = "lobby" \/ (state' = "hand" /\ stage' = "preflop")
     /\ state = "hand"
          => \/ /\ state' = "hand" /\ handNo' = handNo
                /\ \/ stage' = stage /\ community' = community
                   \/ StageNo(stage') = StageNo(stage) + 1 /\ Len(community') = BoardOf(stage')
             \/ /\ state' = "reveal" /\ handNo' = handNo
                /\ award' # NoAward \/ Len(community') = 5
     /\ state = "reveal"
          => state' \in {"reveal", "showdown"} /\ handNo' = handNo
     /\ state = "showdown"
          => \/ state' \in {"showdown", "lobby"}
             \/ state' = "hand" /\ stage' = "preflop" /\ handNo' = handNo + 1]_vars


\* the players still in the hand, by index
Unfolded(ps) == {i \in 1..Len(ps) : ~ps[i].folded}

\* C11: whenever an action would be accepted and leave at least two players
\* unfolded, all of them all-in, that same call of handlePlayerAction deals the
\* board up to 5 cards, offers nobody a turn and puts the room in reveal.
C11_FastForward ==
  \A i \in 1..Len(players), action \in Kinds, amount \in HandAmounts :
     LET w == handlePlayerAction(Cur, i, action, amount)
     IN (w # Cur
           /\ Cardinality(Unfolded(w.players)) >= 2
           /\ \A k \in Unfolded(w.players) : w.players[k].allIn)
          => /\ w.state = "reveal"
             /\ Len(w.community) = 5
             /\ w.currentSeat = null

\* both players went all-in before the flop and the room is in reveal with
\* the whole board dealt (an all-in player keeps its betThisRound)
C11_Witness ==
  /\ state = "reveal"
  /\ stage = "river"
  /\ Len(community) = 5
  /\ award = NoAward
  /\ Cardinality(Unfolded(players)) >= 2
  /\ \A i \in Unfolded(players) :
        players[i].allIn /\ players[i].betThisRound = players[i].committed


\* C12: a reveal->showdown timer that fires when the room is no longer in
\* reveal, and a next-hand timer that fires when the room is no longer in
\* showdown, change nothing in the room (the timer itself is consumed).
C12_StaleTimerIsNoOp ==
  \A i \in 1..Len(timers) :
     CanFire(i)
        => /\ (timers[i] \in {"nexthand", "nexthandD"} /\ state # "showdown")
                => \A off \in Shuffles :
                      nextHandCallback(Fired(i), timers[i], off) = Fired(i)
           /\ (timers[i] \in {"showdown", "showdownD"} /\ state # "reveal")
                => \A rk \in Rankings(Cur) :
                      showdownCallback(Fired(i), timers[i], rk) = Fired(i)


\* the bot-turn timers pending in room w
BotTimers(w) == {i \in 1..Len(w.timers) : w.timers[i] = "bot"}

\* room w with a bot-turn timer left pending from an earlier turn
WithBotTimer(w) == [w EXCEPT !.botTimer = TRUE, !.timers = <<"bot">> \o @]

\* C13: at most one bot-turn timer is pending, room.botTimer says whether one
\* is, and an accepted action leaves the room as if no bot timer had been
\* pending when it arrived: the old timer is cancelled, and a bot timer
\* pending afterwards was set by the action itself for the seat now to act.
C13_BotTimerCancelled ==
  /\ Cardinality(BotTimers(Cur)) <= 1
  /\ botTimer <=> (BotTimers(Cur) # {})
  /\ ~botTimer
       => \A i \in 1..Len(players), action \in Kinds, amount \in HandAmounts :
             handlePlayerAction(Cur, i, action, amount) # Cur
                => handlePlayerAction(WithBotTimer(Cur), i, action, amount)
                      = handlePlayerAction(Cur, i, action, amount)

\* a human acts and the turn passes to the bot, for which one timer is set; a
\* human who then disconnects makes the room broadcast again
C13_Witness ==
  /\ state = "hand"
  /\ botTimer
  /\ Cardinality(BotTimers(Cur)) = 1
  /\ currentSeat # null
  /\ FindSeat(players, currentSeat) # 0
  /\ players[FindSeat(players, currentSeat)].bot
  /\ open # Sockets


\* other hole cards the players other than the viewer might hold instead
CardShifts == {1, 7}

\* room w with every hole card of the players other than viewerId replaced
OtherHoles(w, viewerId, d) ==
  [w EXCEPT !.players = [i \in 1..Len(w.players) |->
     IF w.players[i].id = viewerId THEN w.players[i]
     ELSE [w.players[i] EXCEPT !.hole =
             [k \in 1..Len(w.players[i].hole) |->
                ((w.players[i].hole[k] + d - 1) % DeckSize) + 1]]]]

\* C14: the snapshot for a seated viewer V shows V's own hole cards; unless
\* the room is in reveal or showdown or V's stack is zero it shows no card of
\* another player; and while the state is hand the snapshot of a viewer with
\* chips does not depend on the other players' hole cards.
C14_SnapshotHidesHoleCards ==
  \A v \in 1..Len(players) :
     LET V == players[v].id
         snap == sanitizeFor(Cur, V)
     IN /\ \A k \in 1..Len(snap.players) :
              snap.players[k].id = V => snap.players[k].hole = players[v].hole
        /\ (state \notin {"reveal", "showdown"} /\ players[v].stack > 0)
              => \A k \in 1..Len(snap.players) :
                    snap.players[k].id # V
                       => /\ \A j \in 1..Len(snap.players[k].hole) :
                                snap.players[k].hole[j] = Masked
                          /\ snap.players[k].handRank = <<>>
                          /\ snap.equityInfo = <<>>
        /\ (state = "hand" /\ players[v].stack > 0)
              => \A d \in CardShifts :
                    sanitizeFor(OtherHoles(Cur, V, d), V) = snap

\* a hand in which a viewer with chips faces a player holding two cards
C14_Witness ==
  /\ state = "hand"
  /\ \E v \in 1..Len(players), o \in 1..Len(players) :
        /\ v # o
        /\ players[v].stack > 0
        /\ Len(players[v].hole) = 2
        /\ Len(players[o].hole) = 2
        /\ sanitizeFor(Cur, players[v].id).players[o].hole = <<Masked, Masked>>


\* what a hand looks like apart from who is connected and who hosts: the
\* room's game fields, the players' game fields and the pending pipeline
GameView(w) ==
  [state |-> w.state, stage |-> w.stage, pot |-> w.pot,
   community |-> w.community, deck |-> w.deck, currentSeat |-> w.currentSeat,
   currentBet |-> w.currentBet, minRaise |-> w.minRaise,
   players |-> [k \in 1..Len(w.players) |->
                  [w.players[k] EXCEPT !.connected = TRUE]],
   botTimer |-> w.botTimer,
   timers |-> [k \in 1..Len(w.timers) |->
                 IF w.timers[k] = "showdownD" THEN "showdown"
                 ELSE IF w.timers[k] = "nexthandD" THEN "nexthand"
                 ELSE w.timers[k]],
   award |-> w.award]

OnTurn(i) ==
  /\ state = "hand"
  /\ currentSeat = players[i].seat
  /\ ~players[i].folded
  /\ ~players[i].allIn
  /\ players[i].id \in open

\* C15: when the player whose turn it is disconnects, the hand goes on
\* exactly as if that player had folded.
C15_DisconnectIsFold ==
  \A i \in 1..Len(players) :
     OnTurn(i) =>
        GameView(disconnect([Cur EXCEPT !.open = @ \ {players[i].id}], players[i].id))
          = GameView(handlePlayerAction(Cur, i, "fold", 0))


WithChips == {i \in 1..Len(players) : players[i].stack > 0}

\* C16: while the room exists, a room in reveal eventually is in showdown,
\* and a room in showdown eventually is in a new hand if at least two
\* players have chips and in the lobby otherwise.
C16_PipelineProgress ==
  /\ (inRooms /\ state = "reveal") ~> (state = "showdown" \/ ~inRooms)
  /\ (inRooms /\ state = "showdown" /\ Cardinality(WithChips) >= 2
        /\ handNo < MaxHands)
       ~> (state = "hand" \/ ~inRooms)
  /\ (inRooms /\ state = "showdown" /\ Cardinality(WithChips) < 2)
       ~> (state = "lobby" \/ ~inRooms)

\* a showdown reached from reveal, with the next-hand timer pending
C16_Witness ==
  /\ inRooms
  /\ state = "showdown"
  /\ potLog # <<>>
  /\ \E i \in 1..Len(timers) : timers[i] = "nexthand"
  /\ Cardinality(WithChips) >= 2
  /\ handNo < MaxHands

\* the other outcome: a showdown that leaves one player with chips
C16_WitnessLobby ==
  /\ inRooms
  /\ state = "showdown"
  /\ Cardinality(WithChips) < 2
  /\ \E i \in 1..Len(timers) : timers[i] = "nexthand"


\* three players committed 100, 100 and 300 in some order and nobody folded
Committed_100_100_300 ==
  /\ Len(players) = 3
  /\ Cardinality({i \in 1..3 : players[i].committed = 100}) = 2
  /\ Cardinality({i \in 1..3 : players[i].committed = 300}) = 1
  /\ \A i \in 1..3 : ~players[i].folded

IdsAtLeast(level) ==
  {players[i].id : i \in {j \in 1..Len(players) : players[j].committed >= level}}

EligibleSet(p) == {p.eligible[k] : k \in 1..Len(p.eligible)}

\* C17 as stated: for committed amounts 100, 100, 300 with nobody folded the
\* pots are 300 for all three players and 400 for the 300-level players,
\* 700 in all.
C17_AsStated ==
  Committed_100_100_300 =>
     LET pots == buildSidePots(players)
     IN /\ Len(pots) = 2
        /\ pots[1].amount = 300
        /\ EligibleSet(pots[1]) = IdsAtLeast(100)
        /\ pots[2].amount = 400
        /\ EligibleSet(pots[2]) = IdsAtLeast(300)
        /\ pots[1].amount + pots[2].amount = 700

\* C17: for committed amounts 100, 100, 300 with nobody folded the pots are
\* 300 for all three players and 200 for the one player at the 300 level,
\* 500 in all, which is what was committed.
C17_SidePotsExample ==
  Committed_100_100_300 =>
     LET pots == buildSidePots(players)
     IN /\ Len(pots) = 2
        /\ pots[1].amount = 300
        /\ EligibleSet(pots[1]) = IdsAtLeast(100)
        /\ Cardinality(EligibleSet(pots[1])) = 3
        /\ pots[2].amount = 200
        /\ EligibleSet(pots[2]) = IdsAtLeast(300)
        /\ Cardinality(EligibleSet(pots[2])) = 1
        /\ pots[1].amount + pots[2].amount = 500
        /\ pots[1].amount + pots[2].amount = SumCommitted(players)

\* the showdown of such a hand has paid the two pots
C17_Witness ==
  /\ Committed_100_100_300
  /\ state = "showdown"
  /\ paid = 1
  /\ Len(potLog) = 2
  /\ potLog[1].amount = 300
  /\ potLog[2].amount = 200


\* the short stack A is all-in for 50, B and C have 200 in and nobody folded
ShortAllIn(a) ==
  /\ Len(players) = 3
  /\ players[a].committed = 50
  /\ players[a].allIn
  /\ \A i \in 1..3 : ~players[i].folded
  /\ \A i \in (1..3) \ {a} : players[i].committed = 200 /\ ~players[i].allIn

\* C18: three-handed, A all-in before the flop for 50, B and C in for 200
\* each and checking the later streets: at the showdown there are exactly two
\* pots, 150 for A, B and C and 300 for B and C only.
C18_ShortAllInPots ==
  \A a \in 1..Len(players) :
     (ShortAllIn(a) /\ state \in {"reveal", "showdown"}) =>
        LET pots == buildSidePots(players)
        IN /\ Len(pots) = 2
           /\ pots[1].amount = 150
           /\ EligibleSet(pots[1]) = {players[i].id : i \in 1..3}
           /\ pots[2].amount = 300
           /\ EligibleSet(pots[2]) = {players[i].id : i \in (1..3) \ {a}}
           /\ (state = "showdown" /\ paid >= 1) =>
                 /\ Len(potLog) = 2
                 /\ potLog[1].amount = 150
                 /\ potLog[2].amount = 300
                 /\ \A k \in 1..Len(potLog[2].winners) :
                       potLog[2].winners[k] # players[a].id

\* that hand at its showdown, checked down to the river
C18_Witness ==
  /\ state = "showdown"
  /\ stage = "river"
  /\ Len(community) = 5
  /\ paid = 1
  /\ award = NoAward
  /\ \E a \in 1..Len(players) :
        /\ ShortAllIn(a)
        /\ players[a].betThisRound = 50
        /\ Len(potLog) = 2


\* a heads-up hand just dealt with blinds 10/20: a is the dealer and has
\* posted the small blind, b the big blind, and nobody has acted
HeadsUpDealt(a, b) ==
  /\ state = "hand"
  /\ stage = "preflop"
  /\ Len(players) = 2
  /\ a # b
  /\ smallBlind = 10
  /\ bigBlind = 20
  /\ players[a].seat = dealerSeat
  /\ players[a].betThisRound = 10
  /\ players[b].betThisRound = 20
  /\ players[a].stack > 10
  /\ players[b].stack > 0
  /\ pot = 30
  /\ community = <<>>
  /\ \A i \in 1..2 : ~players[i].hasActed /\ ~players[i].folded /\ ~players[i].allIn

\* C19: heads-up with blinds 10/20 the dealer A, who posted the small blind,
\* acts first; when A calls, the round stays open and the turn passes to B;
\* when B then checks, the flop is dealt, currentBet and every betThisRound
\* are 0, the pot is 40 and B is first to act.
C19_HeadsUpPreflop ==
  \A a \in 1..Len(players), b \in 1..Len(players) :
     HeadsUpDealt(a, b) =>
        LET w1 == handlePlayerAction(Cur, a, "call", 0)
            w2 == handlePlayerAction(w1, b, "check", 0)
        IN /\ currentSeat = players[a].seat
           /\ handlePlayerAction(Cur, b, "check", 0) = Cur
           /\ w1.state = "hand"
           /\ w1.stage = "preflop"
           /\ w1.community = <<>>
           /\ w1.players[a].betThisRound = 20
           /\ w1.pot = 40
           /\ ~shouldEndBettingRound(w1)
           /\ w1.currentSeat = players[b].seat
           /\ w2.state = "hand"
           /\ w2.stage = "flop"
           /\ Len(w2.community) = 3
           /\ w2.currentBet = 0
           /\ \A i \in 1..2 : w2.players[i].betThisRound = 0
           /\ w2.pot = 40
           /\ w2.currentSeat = players[b].seat

\* the flop of the first hand after the small blind called and the big blind
\* checked
C19_Witness ==
  /\ state = "hand"
  /\ stage = "flop"
  /\ handNo = 1
  /\ smallBlind = 10
  /\ bigBlind = 20
  /\ Len(players) = 2
  /\ Len(community) = 3
  /\ pot = 40
  /\ currentBet = 0
  /\ \A i \in 1..2 : /\ players[i].betThisRound = 0
                     /\ players[i].committed = 20
                     /\ ~players[i].hasActed
  /\ currentSeat # dealerSeat


\* C20 as stated: while a hand is in progress every player whose stack is 0
\* has allIn = true.
C20_AsStated ==
  state = "hand" =>
     \A i \in 1..Len(players) : players[i].stack = 0 => players[i].allIn

\* C20: while a hand is in progress every player whose stack is 0 and who
\* has not folded has allIn = true, and a player who came to the hand with
\* no chips is folded and not all-in.
C20_ZeroStackIsAllIn ==
  state = "hand" =>
     \A i \in 1..Len(players) :
        /\ (players[i].stack = 0 /\ ~players[i].folded) => players[i].allIn
        /\ (players[i].stack = 0 /\ players[i].committed = 0 /\ players[i].hole = <<>>)
             => (players[i].folded /\ ~players[i].allIn)

\* a hand with a player who put the last chips in, next to one sitting out
C20_Witness ==
  /\ state = "hand"
  /\ \E i \in 1..Len(players), j \in 1..Len(players) :
        /\ players[i].stack = 0
        /\ players[i].committed > 0
        /\ players[i].allIn
        /\ ~players[i].folded
        /\ players[j].stack = 0
        /\ players[j].committed = 0
        /\ players[j].folded
        /\ ~players[j].allIn


\* the first seat after from, clockwise, whose player has chips
ClockwiseNext(ps, from) ==
  LET ds == {d \in 1..MAX_PLAYERS :
               \E i \in 1..Len(ps) :
                  ps[i].seat = (from + d) % MAX_PLAYERS /\ ps[i].stack > 0}
  IN IF ds = {} THEN null ELSE (from + SetMin(ds)) % MAX_PLAYERS

DealerHasChips ==
  state = "hand" =>
     \E i \in 1..Len(players) : players[i].seat = dealerSeat /\ players[i].stack > 0

ButtonMovesClockwise ==
  (handNo' = handNo + 1) => dealerSeat' = ClockwiseNext(players, dealerSeat)

\* C21: while a hand is in progress dealerSeat is the seat of a player with
\* stack > 0, and at each hand start the dealer is the next seat with chips
\* clockwise after the dealer of the hand before.
C21_DealerSeat == [](DealerHasChips) /\ [][ButtonMovesClockwise]_vars


\* C22: within a hand no player's committed decreases; it goes back to 0
\* only once the hand is over, never while the hand's chips are in the pot.
C22_CommittedMonotone ==
  [][\A i \in 1..Len(players) :
        (/\ i <= Len(players')
         /\ players'[i].id = players[i].id
         /\ players'[i].committed < players[i].committed)
           => state \notin {"hand", "reveal"}]_vars


\* C23: after createLobby and after every setBlinds request, smallBlind and
\* bigBlind are whole numbers with smallBlind >= 1 and bigBlind > smallBlind.
C23_BlindsWellFormed ==
  /\ smallBlind # Infinity
  /\ bigBlind # Infinity
  /\ smallBlind >= 1
  /\ bigBlind > smallBlind


NonHosts == (Sockets \cup BotIds) \ {hostId}

\* C24: setBlinds, startGame and addBot from anybody but the host change
\* nothing; the host's startGame changes nothing unless the room is in lobby
\* or showdown, and there it starts a hand if at least two players have
\* chips and otherwise leaves the room in lobby with every stack and the pot
\* as they were.
C24_HostOnly ==
  /\ \A id \in NonHosts :
        /\ \A sb \in BlindValues, bb \in BlindValues : setBlinds(Cur, id, sb, bb) = Cur
        /\ \A off \in Shuffles : startGame(Cur, id, off) = Cur
        /\ \A b \in {"bot", "bot2"} : addBot(Cur, id, b) = Cur
  /\ \A off \in Shuffles :
        LET w == startGame(Cur, hostId, off)
        IN IF state \notin {"lobby", "showdown"} THEN w = Cur
           ELSE IF Cardinality(WithChips) >= 2
           THEN /\ w.state = "hand"
                /\ w.handNo = handNo + 1
           ELSE /\ w.state = "lobby"
                /\ w.handNo = handNo
                /\ w.pot = pot
                /\ \A i \in 1..Len(players) : w.players[i].stack = players[i].stack

\* the host's startGame after a showdown that left one player with chips:
\* the room is in lobby before the next-hand timer has fired
C24_Witness ==
  /\ state = "lobby"
  /\ handNo >= 1
  /\ paid = 1
  /\ potLog # <<>>
  /\ Cardinality(WithChips) < 2
  /\ timers = <<"nexthand">>
  /\ \A i \in 1..Len(players) : players[i].committed > 0


\* C25: a player, human or bot, is seated only while the room is in lobby,
\* and a join that is rejected changes nothing.
C25_SeatedOnlyInLobby ==
  /\ [][Len(players') > Len(players) => state = "lobby"]_vars
  /\ [](state # "lobby" =>
          \A id \in Sockets : FindId(players, id) = 0 => joinLobby(Cur, id) = Cur)


PipelineTimers == {i \in 1..Len(timers) : timers[i] # "bot"}

\* C26: the end of a hand starts exactly one reveal -> showdown -> next-hand
\* chain: at most one of its timers is pending at any time, the payout of a
\* hand is applied at most once, and one step never begins two hands.
C26_SingleChain ==
  /\ [](Cardinality(PipelineTimers) <= 1)
  /\ [](paid <= 1)
  /\ [][handNo' <= handNo + 1]_vars


\* C27: whenever the room is in hand, currentSeat is the seat of a player who
\* is neither folded nor all-in.
C27_SomebodyCanAct ==
  state = "hand" =>
     /\ currentSeat # null
     /\ \E i \in 1..Len(players) :
           /\ players[i].seat = currentSeat
           /\ ~players[i].folded
           /\ ~players[i].allIn


\* The seat to act belongs to a human whose socket closed before the turn
\* came: this player can neither act nor disconnect any more, which the
\* assumption of C28 rules out.
TurnAbandoned ==
  \E i \in 1..Len(players) :
     /\ players[i].seat = currentSeat
     /\ players[i].id \in Sockets \ open

\* C28: no state of a hand in progress is a dead end: a timer is pending, or
\* an action or the disconnect of some connected player moves the hand on
\* (as long as the player to act can still be reached).
C28_NoDeadEnd ==
  (state = "hand" /\ ~TurnAbandoned) =>
     \/ timers # <<>>
     \/ \E id \in open, action \in Kinds, amount \in TableAmounts \cup {0} :
           GameView(playerAction(Cur, id, action, amount)) # GameView(Cur)
     \/ \E id \in open :
           GameView(disconnect([Cur EXCEPT !.open = @ \ {id}], id)) # GameView(Cur)


\* C29: at showdown every pot slice has a winner among its eligible players
\* and the shares paid out add up to the pot.
C29_EverySlicePaid ==
  (state = "showdown" /\ award = NoAward /\ paid = 1) =>
     /\ \A k \in 1..Len(potLog) : potLog[k].winners # <<>>
     /\ SumSeq([k \in 1..Len(potLog) |-> SumSeq(potLog[k].shares)]) = pot


\* C30: while a hand is played, the snapshot sent to a connected player who
\* holds hole cards and has not folded, all-in or not, shows that player no
\* other player's hole cards.
C30_ContestantSeesNoHoleCards ==
  state = "hand" =>
     \A v \in 1..Len(players) :
        (players[v].id \in open /\ Len(players[v].hole) = 2 /\ ~players[v].folded)
           => LET snap == sanitizeFor(Cur, players[v].id)
              IN \A k \in 1..Len(snap.players) :
                    snap.players[k].id # players[v].id
                       => \A j \in 1..Len(snap.players[k].hole) :
                             snap.players[k].hole[j] = Masked


\* C31: a pending bot timer, when it fires, applies no action to the seat of
\* a human player.
C31_BotTimerActsForBotsOnly ==
  \A i \in 1..Len(timers), bluff \in BOOLEAN, loose \in BOOLEAN :
     (timers[i] = "bot" /\ CanFire(i) /\ currentSeat # null)
        => LET k == FindSeat(players, currentSeat)
           IN (k # 0 /\ ~players[k].bot)
                 => GameView(botCallback(Fired(i), bluff, loose))
                      = GameView([Fired(i) EXCEPT !.botTimer = FALSE])


\* What a player with the given stack pays for a blind.
BlindPaid(blind, stack) == IF blind < stack THEN blind ELSE stack

\* C32: beginHand charges the small blind to the dealer and the big blind to
\* the other player when two players have chips, and to the first and second
\* seat with chips after the dealer when three or more have; each poster pays
\* min(blind, stack), is all-in when that is the whole stack, and currentBet
\* is the larger of the two amounts posted.
C32_BlindsPosted ==
  \A off \in Shuffles :
     Cardinality(WithChips) >= 2 =>
        LET w == beginHand(Cur, off)
            sbSeat == IF Cardinality(WithChips) = 2 THEN w.dealerSeat
                      ELSE ClockwiseNext(players, w.dealerSeat)
            bbSeat == ClockwiseNext(players, sbSeat)
            due(i) == IF players[i].seat = sbSeat
                      THEN BlindPaid(smallBlind, players[i].stack)
                      ELSE IF players[i].seat = bbSeat
                      THEN BlindPaid(bigBlind, players[i].stack)
                      ELSE 0
        IN /\ sbSeat # bbSeat
           /\ \E i \in WithChips : players[i].seat = sbSeat
           /\ \E i \in WithChips : players[i].seat = bbSeat
           /\ \A i \in 1..Len(players) :
                 /\ w.players[i].stack = players[i].stack - due(i)
                 /\ w.players[i].committed = due(i)
                 /\ w.players[i].betThisRound = due(i)
                 /\ w.players[i].allIn =
                       (players[i].seat \in {sbSeat, bbSeat} /\ due(i) = players[i].stack)
           /\ w.pot = SumSeq([i \in 1..Len(players) |-> due(i)])
           /\ \E i \in WithChips, j \in WithChips :
                 /\ players[i].seat = sbSeat
                 /\ players[j].seat = bbSeat
                 /\ w.currentBet = Max(due(i), due(j))

\* a hand just dealt in which the big blind took a player's whole stack
C32_Witness ==
  /\ state = "hand"
  /\ stage = "preflop"
  /\ pot = SumCommitted(players)
  /\ \A i \in 1..Len(players) : ~players[i].hasActed
  /\ Cardinality(WithChips) >= 2
  /\ \E i \in 1..Len(players) :
        /\ players[i].allIn
        /\ players[i].stack = 0
        /\ players[i].committed > smallBlind
        /\ players[i].committed < bigBlind
        /\ currentBet = players[i].committed


\* The first seat clockwise after a seat whose player can act.
ClockwiseNextActor(ps, from) ==
  LET ds == {d \in 1..MAX_PLAYERS :
               \E i \in 1..Len(ps) :
                  /\ ps[i].seat = (from + d) % MAX_PLAYERS
                  /\ ~ps[i].folded /\ ~ps[i].allIn /\ ps[i].stack > 0}
  IN IF ds = {} THEN null ELSE (from + SetMin(ds)) % MAX_PLAYERS

\* C33: the hand begins with the dealer to act when two players entered it
\* with chips (as far as the dealer, who posts the small blind, has chips left
\* to act with), and otherwise with the first seat after the big blind that
\* can act, whether or not a blind took a poster's whole stack.
C33_FirstToAct ==
  \A off \in Shuffles :
     Cardinality(WithChips) >= 2 =>
        LET w == beginHand(Cur, off)
            d == FindSeat(w.players, w.dealerSeat)
            sbSeat == ClockwiseNext(players, w.dealerSeat)
            bbSeat == ClockwiseNext(players, sbSeat)
        IN IF Cardinality(WithChips) = 2
           THEN w.players[d].allIn \/ w.currentSeat = w.dealerSeat
           ELSE w.currentSeat = ClockwiseNextActor(w.players, bbSeat)


\* C34: beginHand leaves two hole cards with every player who entered the
\* hand with chips and none with the others, and during a hand every player
\* who has not folded holds two hole cards.
C34_TwoHoleCards ==
  /\ \A off \in Shuffles :
        Cardinality(WithChips) >= 2 =>
           LET w == beginHand(Cur, off)
           IN \A i \in 1..Len(players) :
                 Len(w.players[i].hole) = IF players[i].stack > 0 THEN 2 ELSE 0
  /\ state = "hand" =>
        \A i \in 1..Len(players) : ~players[i].folded => Len(players[i].hole) = 2


\* The players whose turn it is: seated at currentSeat in a hand, neither
\* folded nor all-in.
ToAct ==
  {i \in 1..Len(players) :
     /\ state = "hand"
     /\ players[i].seat = currentSeat
     /\ ~players[i].folded
     /\ ~players[i].allIn}

\* Totals worth proposing in the present state: around the player's street
\* total, the smallest full raise and the player's whole stack.
Proposals(i) ==
  LET b == players[i].betThisRound
      m == minTo(Cur)
      a == players[i].betThisRound + players[i].stack
  IN {-1, 0, 1, b, b + 1, currentBet, currentBet + 1,
      m - 1, m, m + 1, a - 1, a, a + 1} \cup TableAmounts

Wagers(i) ==
  {x \in [action : {"bet", "raise", "all-in"}, T : Proposals(i)] :
     /\ x.action = "all-in" => x.T = players[i].betThisRound + players[i].stack
     /\ handlePlayerAction(Cur, i, x.action, x.T) # Cur}

\* The room right after the action branch of an accepted wager, before the
\* turn moves on or the street changes.
Wagered(i, x) == actionBranch(Cur, i, x.action, x.T).w

\* C36: an accepted bet, raise or all-in to a street total T above currentBet
\* makes T the currentBet, makes T - currentBet the minRaise if that is at
\* least the old minRaise, and resets hasActed of every other player who is
\* neither folded nor all-in; a total not above currentBet changes none of
\* these.
C36_RaiseBookkeeping ==
  \A i \in ToAct :
     \A x \in Wagers(i) :
        LET w == Wagered(i, x)
            T == Min(x.T, players[i].betThisRound + players[i].stack)
            others == {k \in 1..Len(players) : k # i}
        IN /\ w.players[i].betThisRound = T
           /\ IF T > currentBet
              THEN /\ w.currentBet = T
                   /\ w.minRaise = IF T - currentBet >= minRaise
                                   THEN T - currentBet ELSE minRaise
                   /\ \A k \in others :
                         w.players[k].hasActed =
                            IF players[k].folded \/ players[k].allIn
                            THEN players[k].hasActed ELSE FALSE
              ELSE /\ w.currentBet = currentBet
                   /\ w.minRaise = minRaise
                   /\ \A k \in others : w.players[k].hasActed = players[k].hasActed
           /\ LET v == handlePlayerAction(Cur, i, x.action, x.T)
              IN (v.state = "hand" /\ v.stage = stage) =>
                    /\ v.currentBet = w.currentBet
                    /\ v.minRaise = w.minRaise
                    /\ \A k \in others : v.players[k].hasActed = w.players[k].hasActed

\* after the flop a player who had bet has been raised and has to answer
C36_Witness ==
  /\ state = "hand"
  /\ stage # "preflop"
  /\ \E i \in 1..Len(players), k \in 1..Len(players) :
        /\ players[i].hasActed
        /\ players[i].betThisRound = currentBet
        /\ ~players[k].folded /\ ~players[k].allIn
        /\ ~players[k].hasActed
        /\ players[k].betThisRound > 0
        /\ players[k].betThisRound < currentBet
        /\ minRaise = currentBet - players[k].betThisRound


\* C37: a call by the player to act commits min(currentBet - betThisRound,
\* stack) chips, marks the player as having acted, makes the player all-in
\* exactly when the stack reaches 0, leaves currentBet and minRaise alone, and
\* is a check when nothing is owed.
C37_Call ==
  \A i \in ToAct :
     LET w == actionBranch(Cur, i, "call", 0).w
         v == handlePlayerAction(Cur, i, "call", 0)
         owed == Max(0, currentBet - players[i].betThisRound)
         paidIn == Min(owed, players[i].stack)
     IN /\ actionBranch(Cur, i, "call", 0).ok
        /\ w.players[i].stack = players[i].stack - paidIn
        /\ w.players[i].betThisRound = players[i].betThisRound + paidIn
        /\ w.players[i].committed = players[i].committed + paidIn
        /\ w.pot = pot + paidIn
        /\ w.players[i].hasActed
        /\ w.players[i].allIn = (players[i].stack - paidIn = 0)
        /\ w.currentBet = currentBet
        /\ w.minRaise = minRaise
        /\ \A k \in 1..Len(players) : k # i => w.players[k] = players[k]
        /\ owed = 0 => /\ w = actionBranch(Cur, i, "check", 0).w
                       /\ v = handlePlayerAction(Cur, i, "check", 0)
        /\ v.players[i].committed = players[i].committed + paidIn
        /\ v.pot = pot + paidIn
        /\ (v.state = "hand" /\ v.stage = stage) =>
              /\ v.currentBet = currentBet
              /\ v.minRaise = minRaise
              /\ v.players[i] = w.players[i]

\* a short stack has called a bet it could not cover and is all-in for less
C37_Witness ==
  /\ state = "hand"
  /\ \E i \in 1..Len(players) :
        /\ players[i].allIn
        /\ players[i].stack = 0
        /\ players[i].hasActed
        /\ players[i].betThisRound > 0
        /\ players[i].betThisRound < currentBet


\* C38: for the player to act, all-in does what a bet or raise to the total
\* betThisRound + stack does, to the room as a whole: stacks, bets, pot,
\* currentBet, minRaise, flags, and the turn or street that follows.
C38_AllInIsFullRaise ==
  \A i \in ToAct :
     \A action \in {"bet", "raise"} :
        /\ actionBranch(Cur, i, "all-in", 0)
             = actionBranch(Cur, i, action, players[i].betThisRound + players[i].stack)
        /\ handlePlayerAction(Cur, i, "all-in", 0)
             = handlePlayerAction(Cur, i, action,
                                  players[i].betThisRound + players[i].stack)
        /\ handlePlayerAction(Cur, i, "all-in", 0) # Cur

\* a player has gone all-in over the bet and the others have to answer
C38_Witness ==
  /\ state = "hand"
  /\ \E i \in 1..Len(players) :
        /\ players[i].allIn
        /\ players[i].stack = 0
        /\ players[i].hasActed
        /\ players[i].betThisRound = currentBet
        /\ currentBet > bigBlind
        /\ \E k \in 1..Len(players) :
              /\ k # i
              /\ ~players[k].folded /\ ~players[k].allIn
              /\ ~players[k].hasActed
              /\ players[k].seat = currentSeat


\* the player at seat s exists and passes the filter of the options
PassesFilter(ps, s, includeFolded, includeAllIn, requireStack) ==
  LET k == FindSeat(ps, s)
  IN /\ k # 0
     /\ includeFolded \/ ~ps[k].folded
     /\ includeAllIn \/ ~ps[k].allIn
     /\ ~requireStack \/ ps[k].stack > 0

\* clockwise distances 1..MAX_PLAYERS from a seat at which a player passes
PassingDistances(ps, from, includeFolded, includeAllIn, requireStack) ==
  {d \in 1..MAX_PLAYERS :
     PassesFilter(ps, (from + d) % MAX_PLAYERS,
                  includeFolded, includeAllIn, requireStack)}

\* C39: nextActiveSeat returns the occupied seat at the smallest clockwise
\* distance 1..8 from fromSeat whose player passes the filter, and null exactly
\* when no seated player passes it; the distance is the number of scan steps,
\* so the scan ends within 8 steps. An empty table gives null.
C39_NextActiveSeat ==
  \A from \in 0..(MAX_PLAYERS - 1) :
     \A includeFolded \in BOOLEAN, includeAllIn \in BOOLEAN, requireStack \in BOOLEAN :
        LET r == nextActiveSeat(players, from, includeFolded, includeAllIn, requireStack)
            ds == PassingDistances(players, from, includeFolded, includeAllIn,
                                   requireStack)
        IN /\ (r = null) <=>
                ~ \E i \in 1..Len(players) :
                     PassesFilter(players, players[i].seat,
                                  includeFolded, includeAllIn, requireStack)
           /\ (r = null) <=> (ds = {})
           /\ r # null => r = (from + SetMin(ds)) % MAX_PLAYERS
           /\ nextActiveSeat(<<>>, from, includeFolded, includeAllIn, requireStack)
                = null

\* the scan from the button passes over a busted, folded seat and stops at an
\* all-in blind when all-in players count; when they do not, the button is the
\* only player left and the scan comes back to its own seat at distance 8
C39_Witness ==
  /\ state = "hand"
  /\ dealerSeat # null
  /\ \E a \in 1..Len(players), b \in 1..Len(players) :
        /\ players[a].folded /\ players[a].stack = 0
        /\ players[b].allIn /\ ~players[b].folded
        /\ 0 < (players[a].seat - dealerSeat + MAX_PLAYERS) % MAX_PLAYERS
        /\ (players[a].seat - dealerSeat + MAX_PLAYERS) % MAX_PLAYERS
             < (players[b].seat - dealerSeat + MAX_PLAYERS) % MAX_PLAYERS
        /\ nextActiveSeat(players, dealerSeat, FALSE, TRUE, FALSE) = players[b].seat
  /\ nextActiveSeat(players, dealerSeat, FALSE, FALSE, FALSE) = dealerSeat
  /\ PassingDistances(players, dealerSeat, FALSE, FALSE, FALSE) = {MAX_PLAYERS}


\* the amounts of the side pots built from a list of players
SidePotTotal(ps) ==
  LET pots == buildSidePots(ps)
  IN SumSeq([n \in 1..Len(pots) |-> pots[n].amount])

\* C40: while a hand is in progress (state hand or reveal) the pot equals the
\* sum of all players' committed, so the side pots built at showdown sum to
\* the pot.
C40_PotIsCommitted ==
  state \in {"hand", "reveal"} =>
     /\ pot = SumCommitted(players)
     /\ SidePotTotal(players) = pot


\* a hand has reached the reveal with three players in for three different
\* amounts, one of them folded, two to show down: three side pots that together are the pot
C40_Witness ==
  /\ state = "reveal"
  /\ pot > 0
  /\ Len(buildSidePots(players)) >= 3
  /\ Cardinality({i \in 1..Len(players) : ~players[i].folded}) >= 2
  /\ \E i \in 1..Len(players) : players[i].folded /\ players[i].committed > 0
  /\ \E i \in 1..Len(players) : players[i].allIn /\ players[i].committed < pot
  /\ SidePotTotal(players) = pot

====
